---- MODULE Spec2Model ----
(***************************************************************************)
(* Hotness scoring engine of penny-edge: the pure scorer                   *)
(* (calculateHotnessScore), the batch recomputation endpoint               *)
(* (POST /api/symbols/update-hotness-scores), the price refresh endpoint   *)
(* (POST /api/symbols/update-recent-prices) and a caller that drives a     *)
(* sweep with the returned lastProcessedId.                                *)
(*                                                                         *)
(* Numbers.  Prices are whole numbers; a price entry that is not a valid   *)
(* number (null, NaN, a string) is NullPrice.  Real-valued intermediate    *)
(* results are kept in fixed point: scores in 1/1000 of a point ("milli"), *)
(* percentages in 1/1000 of a percent.  The fractional parameters          *)
(* (volatilityThreshold, trendBoundary and the three multipliers) are held *)
(* in tenths.  A result of the scorer is a record [kind, value]: kind is   *)
(* "number" (value in 1/100 of a point, the scorer rounds to 2 decimals),  *)
(* "NaN" or "throw".                                                       *)
(***************************************************************************)
EXTENDS Integers, Sequences, FiniteSets, TLC

VARIABLES
    averagePrices,   \* argument 1 of the scorer call under study
    scoreParams,     \* argument 2 of the scorer call under study
    scoreResult,     \* what that call produced ("none" before the call)
    store,           \* table penny_edge_symbols: id -> row
    now,             \* the clock, in hours
    batch,           \* local state of the update-hotness-scores handler
    batchResp,       \* the last response of update-hotness-scores
    refreshResp,     \* the last response of update-recent-prices
    sweep,           \* the caller that sweeps the table with the returned tokens
    priceCall,       \* the getAveragePrices call under study: arguments, data, result
    client,          \* the exported parameter objects, the parameter state of
                     \* StockHotnessManager and a repeated scorer call
    drawer,          \* a Drawer component: its props, the document's keydown
                     \* listener, the calls of onClose
    admin,           \* the last call of a delete or restore operation of
                     \* SymbolService and its outcome
    manager          \* StockHotnessManager: isProcessing and the chains of
                     \* processBatch calls it has started

scoreVars == <<averagePrices, scoreParams, scoreResult>>

sideVars == <<priceCall, client, drawer, admin, manager>>

vars == <<averagePrices, scoreParams, scoreResult, store, now, batch, batchResp,
          refreshResp, sweep, sideVars>>

(***************************************************************************)
(* Bounds of the model.                                                    *)
(***************************************************************************)
MaxPrice == 4      \* prices explored by the scorer specification: 0..MaxPrice
MaxLen == 3        \* longest price list explored by the scorer specification
MaxId == 3         \* rows of the table: ids 1..MaxId
MaxClock == 36     \* the clock stops here (hours)
MaxDays == 6       \* days of provider data explored by the price specification
MaxDaysInPeriod == 2 \* largest numberOfDaysInPeriod explored by the price specification
MaxPeriods == 2    \* largest amountOfPeriods a price refresh asks for
MinFinePrice == 340 \* average prices (in 1/100) explored by the persistence
MaxFinePrice == 353 \* specification: MinFinePrice..MaxFinePrice

(***************************************************************************)
(* Values.                                                                 *)
(***************************************************************************)
NullPrice == 0 - 1     \* a price entry that is not a number
Null == 0 - 1          \* SQL NULL / JSON null / undefined in a numeric field
NaNValue == 0 - 3      \* NaN in a numeric field of a request body

Number(v) == [kind |-> "number", value |-> v]
NaN == [kind |-> "NaN", value |-> 0]
Throw == [kind |-> "throw", value |-> 0]
NotCalled == [kind |-> "none", value |-> 0]

DEFAULT_HOTNESS_PARAMS ==
    [dropSensitivity |-> 15, dropMaxScore |-> 70,
     volatilityThreshold |-> 20, volatilityMaxBonus |-> 30,
     downtrendPenalty |-> 5, stableMultiplier |-> 7,
     uptrendMultiplier |-> 10, trendBoundary |-> 30]

RECOMMENDED_HOTNESS_PARAMS ==
    [dropSensitivity |-> 18, dropMaxScore |-> 70,
     volatilityThreshold |-> 25, volatilityMaxBonus |-> 30,
     downtrendPenalty |-> 4, stableMultiplier |-> 7,
     uptrendMultiplier |-> 10, trendBoundary |-> 30]

ParamSets == {DEFAULT_HOTNESS_PARAMS, RECOMMENDED_HOTNESS_PARAMS}

(***************************************************************************)
(* Arithmetic helpers.                                                     *)
(***************************************************************************)
Min(a, b) == IF a <= b THEN a ELSE b

RECURSIVE SumSeq(_)
SumSeq(s) == IF s = <<>> THEN 0 ELSE Head(s) + SumSeq(Tail(s))

RECURSIVE SumSquares(_)
SumSquares(s) == IF s = <<>> THEN 0 ELSE Head(s) * Head(s) + SumSquares(Tail(s))

RECURSIVE ISqrtIter(_, _, _)
ISqrtIter(n, lo, hi) ==
    IF lo = hi THEN lo
    ELSE LET mid == (lo + hi + 1) \div 2
         IN  IF mid * mid <= n THEN ISqrtIter(n, mid, hi)
             ELSE ISqrtIter(n, lo, mid - 1)

\* floor of the square root, for 0 <= n < 46340^2
ISqrt(n) == ISqrtIter(n, 0, 46340)

\* Math.round of a non-negative value held in 1/unit steps
RoundDiv(x, unit) == (2 * x + unit) \div (2 * unit)

(***************************************************************************)
(* The scorer.                                                             *)
(***************************************************************************)
\* typeof price === 'number' && !isNaN(price)
IsValidPrice(price) == price # NullPrice

\* Step 3: min(dropMaxScore, dropPercentage * dropSensitivity), in milli,
\* where dropPercentage = dropNum / histSum
dropScoreOf_Uncapped(dropNum, histSum, params) ==
    (dropNum * params.dropSensitivity * 1000) \div histSum

dropScoreOf(dropNum, histSum, params) ==
    IF dropNum * params.dropSensitivity >= params.dropMaxScore * histSum
    THEN params.dropMaxScore * 1000
    ELSE (dropNum * params.dropSensitivity * 1000) \div histSum

\* Step 4: (stdDev / meanPrice) * 100 in 1/1000 percent, population variance
volatilityPercentageOf(validPrices) ==
    LET N == Len(validPrices)
        total == SumSeq(validPrices)
        varTimesNN == N * SumSquares(validPrices) - total * total
    IN  (ISqrt(varTimesNN * 10000) * 1000) \div total

\* Step 5 and the trend branch of step 6: the multiplier, in tenths.
\* A zero oldest price makes trendPercentage +Infinity (recent > 0) or NaN
\* (recent = 0, both comparisons false).
multiplierOf_Inclusive(mostRecentPrice, oldestPrice, params) ==
    IF oldestPrice = 0
    THEN IF mostRecentPrice > 0 THEN params.uptrendMultiplier
         ELSE params.stableMultiplier
    ELSE IF (mostRecentPrice - oldestPrice) * 1000 <= (0 - params.trendBoundary) * oldestPrice
         THEN params.downtrendPenalty
         ELSE IF (mostRecentPrice - oldestPrice) * 1000 >= params.trendBoundary * oldestPrice
              THEN params.uptrendMultiplier
              ELSE params.stableMultiplier

multiplierOf(mostRecentPrice, oldestPrice, params) ==
    IF oldestPrice = 0
    THEN IF mostRecentPrice > 0 THEN params.uptrendMultiplier
         ELSE params.stableMultiplier
    ELSE IF (mostRecentPrice - oldestPrice) * 1000 < (0 - params.trendBoundary) * oldestPrice
         THEN params.downtrendPenalty
         ELSE IF (mostRecentPrice - oldestPrice) * 1000 > params.trendBoundary * oldestPrice
              THEN params.uptrendMultiplier
              ELSE params.stableMultiplier

\* Step 6: the volatility bonus in milli
volatilityScoreOf(validPrices, params) ==
    LET volatilityPercentage == volatilityPercentageOf(validPrices)
        normalizedVolatility == Min(1000, volatilityPercentage \div 10)
        multiplier == multiplierOf(validPrices[1], validPrices[Len(validPrices)], params)
    IN  IF volatilityPercentage >= params.volatilityThreshold * 100
        THEN (normalizedVolatility * params.volatilityMaxBonus * multiplier) \div 10
        ELSE 0

\* the two length checks of the input validation
EnoughPrices_MinOne(n) == n >= 1

EnoughPrices(n) == n >= 2

\* Step 7 before the rounding: min(100, dropScore + volatilityScore), in milli
hotnessScoreOf(dropNum, histSum, validPrices, params) ==
    Min(100000, dropScoreOf(dropNum, histSum, params) + volatilityScoreOf(validPrices, params))

calculateHotnessScore(prices, params) ==
    IF ~EnoughPrices(Len(prices)) THEN Throw
    ELSE
    LET validPrices == SelectSeq(prices, IsValidPrice)
        N == Len(validPrices)
    IN  IF ~EnoughPrices(N) THEN Throw
        ELSE
        LET histSum == SumSeq(Tail(validPrices))      \* historicalAvg * (N - 1)
            mostRecentPrice == validPrices[1]
            dropNum == (histSum - mostRecentPrice * (N - 1)) * 100
        IN  IF histSum = 0
            THEN \* division by zero: -Infinity <= 0 returns 0; 0/0 is NaN,
                 \* which fails the <= 0 test and propagates to the result
                 IF mostRecentPrice > 0 THEN Number(0) ELSE NaN
            ELSE IF dropNum <= 0 THEN Number(0)
            ELSE
            LET hotnessScore == hotnessScoreOf(dropNum, histSum, validPrices, params)
            IN  Number(RoundDiv(hotnessScore, 10))

(***************************************************************************)
(* The table.  A row is [code, recent_prices, last_updated_recent_prices,  *)
(* hotness_score, last_updated_hotness_score, deleted_at]; recent_prices   *)
(* is [null, periods] and a period is [startDaysAgo, endDaysAgo,           *)
(* averagePrice].  deleted_at is TRUE for a soft-deleted row.  The code of *)
(* row i is i.                                                             *)
(***************************************************************************)
Ids == 1..MaxId

Codes == {"AAA"}

NullPrices == [null |-> TRUE, periods |-> <<>>]

\* the period record getAveragePrices builds for period index i (0 = newest)
\* as pushed by the loop: changePercent, changeAbsolute and direction are not set
PeriodOf(i, numberOfDaysInPeriod, averagePrice) ==
    [startDaysAgo |-> i * numberOfDaysInPeriod,
     endDaysAgo |-> (i + 1) * numberOfDaysInPeriod,
     averagePrice |-> averagePrice,
     changeKind |-> "absent", changePercent |-> 0, changeAbsolute |-> 0,
     direction |-> "absent"]

AbsentRow ==
    [present |-> FALSE, code |-> "", recent_prices |-> NullPrices,
     last_updated_recent_prices |-> Null, hotness_score |-> Null,
     last_updated_hotness_score |-> Null, deleted_at |-> FALSE]

\* a row as createSymbol and the column defaults leave it: hotness_score is
\* INT DEFAULT 0, the other unset columns are NULL
NewRow(code, recent_prices, clock) ==
    [present |-> TRUE, code |-> code, recent_prices |-> recent_prices,
     last_updated_recent_prices |-> IF recent_prices.null THEN Null ELSE clock,
     hotness_score |-> 0, last_updated_hotness_score |-> Null,
     deleted_at |-> FALSE]

(***************************************************************************)
(* POST /api/symbols/update-hotness-scores                                 *)
(***************************************************************************)
RECURSIVE AscSeq(_)

AscSeq_Descending(S) ==
    IF S = {} THEN <<>>
    ELSE LET m == CHOOSE x \in S : \A y \in S : x >= y
         IN  <<m>> \o AscSeq(S \ {m})

AscSeq(S) ==
    IF S = {} THEN <<>>
    ELSE LET m == CHOOSE x \in S : \A y \in S : x <= y
         IN  <<m>> \o AscSeq(S \ {m})

Reverse(s) == [i \in 1..Len(s) |-> s[Len(s) + 1 - i]]

\* the query: rows with recent_prices, not soft-deleted, after continueFromId
\* when one is given, ordered by id, limited to batchSize
CandidateIds_FromToken(table, continueFromId) ==
    {id \in Ids : /\ table[id].present
                  /\ ~table[id].recent_prices.null
                  /\ ~table[id].deleted_at
                  /\ (continueFromId # Null => id >= continueFromId)}

CandidateIds(table, continueFromId) ==
    {id \in Ids : /\ table[id].present
                  /\ ~table[id].recent_prices.null
                  /\ ~table[id].deleted_at
                  /\ (continueFromId # Null => id > continueFromId)}

SelectSymbols(table, batchSize, continueFromId) ==
    LET ordered == AscSeq(CandidateIds(table, continueFromId))
        page == SubSeq(ordered, 1, Min(batchSize, Len(ordered)))
    IN  [i \in 1..Len(page) |-> [id |-> page[i], recent_prices |-> table[page[i]].recent_prices]]

\* the list the loop hands to the scorer
averagePricesOf(periods) ==
    LET reversed == Reverse(periods)
    IN  [i \in 1..Len(reversed) |-> reversed[i].averagePrice]

\* Math.round of the scorer's result
MathRound(result) ==
    IF result.kind = "NaN" THEN NaNValue ELSE RoundDiv(result.value, 100)

\* JSON.stringify of a numeric field of a request body
ToJSON(v) == IF v = NaNValue THEN Null ELSE v

\* the scoring loop over the page: the staged updates, in page order
RECURSIVE StageUpdates(_, _, _)

StageUpdates_AbortOnSkip(symbols, params, clock) ==
    IF symbols = <<>> THEN <<>>
    ELSE
    LET symbol == Head(symbols)
    IN  IF Len(symbol.recent_prices.periods) < 2 THEN <<>>
        ELSE
        LET prices == [i \in 1..Len(symbol.recent_prices.periods) |->
                          symbol.recent_prices.periods[Len(symbol.recent_prices.periods) + 1 - i].averagePrice]
            hotnessScore == calculateHotnessScore(prices, params)
        IN  IF hotnessScore.kind = "throw" THEN <<>>
            ELSE <<[id |-> symbol.id,
                    hotness_score |-> IF hotnessScore.kind = "NaN" THEN NaNValue
                                      ELSE RoundDiv(hotnessScore.value, 100),
                    last_updated_hotness_score |-> clock,
                    averagePrices |-> prices]>>
                 \o StageUpdates(Tail(symbols), params, clock)

StageUpdates(symbols, params, clock) ==
    IF symbols = <<>> THEN <<>>
    ELSE
    LET symbol == Head(symbols)
        rest == StageUpdates(Tail(symbols), params, clock)
    IN  IF Len(symbol.recent_prices.periods) < 2 THEN rest
        ELSE
        LET prices == averagePricesOf(symbol.recent_prices.periods)
            hotnessScore == calculateHotnessScore(prices, params)
        IN  IF hotnessScore.kind = "throw" THEN rest
            ELSE <<[id |-> symbol.id,
                    hotness_score |-> MathRound(hotnessScore),
                    last_updated_hotness_score |-> clock,
                    averagePrices |-> prices]>> \o rest

\* the local state of the handler.  storeOps counts the requests it has sent
\* to the store, written holds the ids whose update the store applied and
\* storeAtStart is the table as the request found it.
IdleBatch ==
    [pc |-> "idle", batchSize |-> 0, params |-> DEFAULT_HOTNESS_PARAMS,
     continueFromId |-> Null, symbols |-> <<>>, updates |-> <<>>,
     processedCount |-> 0, updateErrors |-> 0, next |-> 1, written |-> {},
     storeOps |-> 0, storeAtStart |-> <<>>]

NoResponse ==
    [status |-> 0, body |-> "none", processed |-> Null, hasMore |-> "undefined",
     lastProcessedId |-> Null]

ErrorResponse(status, body) ==
    [status |-> status, body |-> body, processed |-> Null, hasMore |-> "undefined",
     lastProcessedId |-> Null]

\* the batchSize validation
ValidBatchSize_Exclusive(batchSize) == ~(batchSize < 1 \/ batchSize >= 1000)

ValidBatchSize(batchSize) == ~(batchSize < 1 \/ batchSize > 1000)

\* hasMore = symbols.length === batchSize
hasMoreOf_Longer(length, batchSize) == length > batchSize

hasMoreOf(length, batchSize) == length = batchSize

\* the response after the update loop
FinalResponse(b) ==
    IF b.updateErrors > 0 THEN ErrorResponse(500, "Failed to update some hotness scores")
    ELSE LET hasMore == hasMoreOf(Len(b.symbols), b.batchSize)
         IN  [status |-> 200, body |-> "Successfully processed",
              processed |-> b.processedCount,
              hasMore |-> IF hasMore THEN "true" ELSE "false",
              lastProcessedId |-> IF hasMore THEN b.symbols[Len(b.symbols)].id ELSE Null]

\* The handler up to its first update: validation, the query, the scoring
\* loop; it responds at once when it has nothing to write.
HandleBatch(batchSize, params, continueFromId, fetchOk) ==
    LET request == [IdleBatch EXCEPT !.batchSize = batchSize, !.params = params,
                                     !.continueFromId = continueFromId,
                                     !.storeAtStart = store]
    IN
    /\ batch.pc = "idle"
    /\ IF ~ValidBatchSize(batchSize)
       THEN /\ batchResp' = ErrorResponse(400, "batchSize must be between 1 and 1000")
            /\ batch' = request
       ELSE IF ~fetchOk
       THEN /\ batchResp' = ErrorResponse(500, "Failed to fetch symbols")
            /\ batch' = [request EXCEPT !.storeOps = 1]
       ELSE
       LET symbols == SelectSymbols(store, batchSize, continueFromId)
           updates == StageUpdates(symbols, params, now)
           started == [request EXCEPT !.pc = "updating", !.symbols = symbols,
                                      !.updates = updates,
                                      !.processedCount = Len(updates),
                                      !.storeOps = 1]
       IN  IF symbols = <<>>
           THEN /\ batchResp' = [status |-> 200, body |-> "No symbols found to process",
                                 processed |-> 0, hasMore |-> "undefined",
                                 lastProcessedId |-> Null]
                /\ batch' = [request EXCEPT !.storeOps = 1]
           ELSE IF updates = <<>>
           THEN /\ batchResp' = FinalResponse(started)
                /\ batch' = [started EXCEPT !.pc = "idle"]
           ELSE /\ batchResp' = NoResponse
                /\ batch' = started
    /\ UNCHANGED <<store, now>>

\* update({hotness_score, last_updated_hotness_score}).eq('id', update.id):
\* the row after the update
RowAfterUpdate_ClearsPrices(row, update) ==
    [row EXCEPT !.hotness_score = ToJSON(update.hotness_score),
                !.last_updated_hotness_score = update.last_updated_hotness_score,
                !.recent_prices = NullPrices]

RowAfterUpdate(row, update) ==
    [row EXCEPT !.hotness_score = ToJSON(update.hotness_score),
                !.last_updated_hotness_score = update.last_updated_hotness_score]

\* One iteration of the update loop; updateOk is the store's answer.  The
\* response follows the last iteration.
BatchUpdate(updateOk) ==
    /\ batch.pc = "updating"
    /\ LET update == batch.updates[batch.next]
           after == [batch EXCEPT
                        !.next = @ + 1,
                        !.storeOps = @ + 1,
                        !.updateErrors = IF updateOk THEN @ ELSE @ + 1,
                        !.written = IF updateOk THEN @ \cup {update.id} ELSE @]
           last == batch.next = Len(batch.updates)
       IN  /\ store' = IF updateOk
                       THEN [store EXCEPT ![update.id] = RowAfterUpdate(@, update)]
                       ELSE store
           /\ batch' = IF last THEN [after EXCEPT !.pc = "idle"] ELSE after
           /\ batchResp' = IF last THEN FinalResponse(after) ELSE batchResp
    /\ UNCHANGED now

(***************************************************************************)
(* getAveragePrices.  closes[j] is the close of the quote that is j - 1    *)
(* days old, or Null when the provider has none for that day.              *)
(***************************************************************************)
RECURSIVE SumCloses(_, _)
SumCloses(closes, days) ==
    IF days = {} THEN 0
    ELSE LET j == CHOOSE x \in days : TRUE
         IN  closes[j] + SumCloses(closes, days \ {j})

\* the valid data points, by their index in closes
validDataOf(closes) == {j \in 1..Len(closes) : closes[j] # Null}

\* the data points of period i: daysAgo >= periodStartDays and < periodEndDays
periodDataOf(closes, i, numberOfDaysInPeriod) ==
    {j \in validDataOf(closes) : /\ j - 1 >= i * numberOfDaysInPeriod
                                 /\ j - 1 < (i + 1) * numberOfDaysInPeriod}

\* the loop over the periods, most recent first; a period without data is skipped
RECURSIVE BuildPeriods(_, _, _, _)
BuildPeriods(closes, numberOfDaysInPeriod, i, periodsToCalculate) ==
    IF i >= periodsToCalculate THEN <<>>
    ELSE
    LET periodData == periodDataOf(closes, i, numberOfDaysInPeriod)
        rest == BuildPeriods(closes, numberOfDaysInPeriod, i + 1, periodsToCalculate)
    IN  IF periodData = {} THEN rest
        ELSE <<PeriodOf(i, numberOfDaysInPeriod,
                        RoundDiv(SumCloses(closes, periodData), Cardinality(periodData)))>>
             \o rest

\* Number(x.toFixed(k)) of a quotient, in units of 10^-k: half away from zero
RoundDivSigned(x, unit) == IF x >= 0 THEN RoundDiv(x, unit) ELSE 0 - RoundDiv(0 - x, unit)

\* the change fields the second loop sets on currentPeriod from nextPeriod
\* = periods[i + 1].  Prices are in 1/100, changeAbsolute too, changePercent
\* in 1/10000 of a percent; a division by zero gives an infinity or NaN.
ChangeOf(currentPeriod, nextPeriod) ==
    LET changeAbsolute == currentPeriod.averagePrice - nextPeriod.averagePrice
        kind == IF nextPeriod.averagePrice # 0 THEN "number"
                ELSE IF changeAbsolute > 0 THEN "Infinity"
                ELSE IF changeAbsolute < 0 THEN "-Infinity" ELSE "NaN"
        changePercent == IF kind = "number"
                         THEN RoundDivSigned(changeAbsolute * 1000000, nextPeriod.averagePrice)
                         ELSE 0
    IN  [currentPeriod EXCEPT
            !.changeKind = kind,
            !.changePercent = changePercent,
            !.changeAbsolute = changeAbsolute,
            !.direction = IF kind = "Infinity" \/ (kind = "number" /\ changePercent >= 0)
                          THEN "up" ELSE "down"]

\* the loop over i < periods.length - 1
WithChanges(periods) ==
    [i \in 1..Len(periods) |->
        IF i < Len(periods) THEN ChangeOf(periods[i], periods[i + 1]) ELSE periods[i]]

\* Array.prototype.slice(-n)
SliceLast(s, n) == SubSeq(s, IF Len(s) > n THEN Len(s) - n + 1 ELSE 1, Len(s))

\* one extra period is calculated
periodsToCalculateOf_NoExtra(amountOfPeriods) == amountOfPeriods

periodsToCalculateOf(amountOfPeriods) == amountOfPeriods + 1

\* periods.reverse(), then slice(-amountOfPeriods).reverse()
periodsToReturnOf_NoSecondReverse(periods, amountOfPeriods) ==
    SliceLast(Reverse(periods), amountOfPeriods)

periodsToReturnOf(periods, amountOfPeriods) ==
    Reverse(SliceLast(Reverse(periods), amountOfPeriods))

getAveragePrices(closes, numberOfDaysInPeriod, amountOfPeriods) ==
    IF Cardinality(validDataOf(closes)) < numberOfDaysInPeriod
    THEN [ok |-> FALSE, data |-> NullPrices]
    ELSE
    LET periods == WithChanges(BuildPeriods(closes, numberOfDaysInPeriod, 0,
                                            periodsToCalculateOf(amountOfPeriods)))
    IN  [ok |-> TRUE,
         data |-> [null |-> FALSE, periods |-> periodsToReturnOf(periods, amountOfPeriods)]]

\* no call of getAveragePrices under study
NoPricesCall ==
    [closes |-> <<>>, numberOfDaysInPeriod |-> 0, amountOfPeriods |-> 0,
     called |-> FALSE, result |-> [ok |-> FALSE, data |-> NullPrices]]

\* the exported objects untouched, the component as mounted, no repeated call
ClientIdle ==
    [exported |-> [DEFAULT_HOTNESS_PARAMS |-> DEFAULT_HOTNESS_PARAMS,
                   RECOMMENDED_HOTNESS_PARAMS |-> RECOMMENDED_HOTNESS_PARAMS],
     paramsRef |-> "DEFAULT_HOTNESS_PARAMS", paramsOwn |-> DEFAULT_HOTNESS_PARAMS,
     paramsOmitted |-> FALSE, edited |-> FALSE, again |-> NotCalled]

\* no Drawer is mounted.  onClose is the version of the callback the parent
\* passes (a new function on each of its renders), listener the version the
\* registered keydown listener calls (0: no listener), calls the number of
\* invocations of onClose, last the last input event and what it did.
NoEvent == [event |-> "none", wasOpen |-> FALSE, invoked |-> 0]

DrawerUnmounted ==
    [mounted |-> FALSE, isOpen |-> FALSE, shouldOpenWithBackdrop |-> FALSE,
     onClose |-> 1, listener |-> 0, calls |-> 0, last |-> NoEvent]

\* no delete or restore operation has been called
NoAdminCall == [op |-> "none", id |-> 0, outcome |-> "none", before |-> <<>>]

\* StockHotnessManager as mounted: isProcessing false, no processBatch chain.
\* A chain is [state, continueFromId, requests]: state "inFlight" while its
\* fetch is pending, "scheduled" while its 500 ms timer is pending, "ended"
\* when it has stopped calling; stopped holds the chains that were running
\* when Stop was clicked, requestsAfterStop those of them that have sent a
\* request since.
NoChain == [state |-> "none", continueFromId |-> 0 - 1, requests |-> 0]

ManagerMounted ==
    [isProcessing |-> FALSE, chains |-> <<>>, stopped |-> {}, requestsAfterStop |-> {}]

SideIdle ==
    /\ priceCall = NoPricesCall
    /\ client = ClientIdle
    /\ drawer = DrawerUnmounted
    /\ admin = NoAdminCall
    /\ manager = ManagerMounted

(***************************************************************************)
(* POST /api/symbols/update-recent-prices                                  *)
(***************************************************************************)
StaleHours == 24

\* the keys updateSymbolSchema knows; z.object drops every other key
SchemaKeys == {"code", "exchange", "recent_prices"}

\* updateSymbolSchema.parse
ParseUpdate(input) == [k \in (DOMAIN input) \cap SchemaKeys |-> input[k]]

\* getSymbolByCode: the ids of the rows that are not soft-deleted and carry the code
ActiveIdsByCode(table, code) ==
    {id \in Ids : table[id].present /\ ~table[id].deleted_at /\ table[id].code = code}

\* the repository's updateSymbolByCode: update ... where code = code
updateSymbolByCodeRepo(table, code, input, clock) ==
    LET updateData ==
            IF "recent_prices" \in DOMAIN input
            THEN [k \in (DOMAIN input) \cup {"last_updated_recent_prices"} |->
                    IF k = "last_updated_recent_prices" THEN clock ELSE input[k]]
            ELSE input
    IN  [id \in Ids |->
            IF table[id].present /\ table[id].code = code
            THEN [f \in DOMAIN table[id] |->
                    IF f \in DOMAIN updateData THEN updateData[f] ELSE table[id][f]]
            ELSE table[id]]

\* SymbolService.updateSymbolByCode
updateSymbolByCode(table, code, input, clock) ==
    updateSymbolByCodeRepo(table, code, ParseUpdate(input), clock)

RefreshResponse(status, updated) == [status |-> status, updated |-> updated]

\* !last_updated_recent_prices || new Date(last_updated_recent_prices) < twentyFourHoursAgo
shouldUpdatePricesOf_Inclusive(existingSymbol, clock) ==
    \/ existingSymbol.last_updated_recent_prices = Null
    \/ existingSymbol.last_updated_recent_prices <= clock - StaleHours

shouldUpdatePricesOf(existingSymbol, clock) ==
    \/ existingSymbol.last_updated_recent_prices = Null
    \/ existingSymbol.last_updated_recent_prices < clock - StaleHours

\* The whole handler.  id is the row getSymbolByCode finds or, when there is
\* none, the id gen_random_uuid gives the row createSymbol inserts.
Refresh(symbol, numberOfDaysInPeriod, amountOfPeriods, closes, id) ==
    LET found == ActiveIdsByCode(store, symbol)
        created == found = {}
        table == IF created
                 THEN [store EXCEPT ![id] = NewRow(symbol, NullPrices, now)]
                 ELSE store
        existingSymbol == table[id]
        shouldUpdatePrices == shouldUpdatePricesOf(existingSymbol, now)
        priceData == getAveragePrices(closes, numberOfDaysInPeriod, amountOfPeriods)
        input == [recent_prices |-> priceData.data, hotness_score |-> Null,
                  last_updated_hotness_score |-> Null]
    IN  /\ IF created THEN ~store[id].present ELSE id \in found
        /\ IF ~shouldUpdatePrices
           THEN /\ store' = table
                /\ refreshResp' = RefreshResponse(200, "false")
           ELSE IF ~priceData.ok
           THEN /\ store' = table
                /\ refreshResp' = RefreshResponse(422, "undefined")
           ELSE /\ store' = updateSymbolByCode(table, symbol, input, now)
                /\ refreshResp' =
                      IF Cardinality({x \in Ids : table[x].present /\ table[x].code = symbol}) = 1
                      THEN RefreshResponse(200, "true")
                      ELSE RefreshResponse(500, "undefined")
        /\ UNCHANGED now

TickHours == 12

Tick ==
    /\ now + TickHours <= MaxClock
    /\ now' = now + TickHours

(***************************************************************************)
(* Callers and specifications.                                             *)
(***************************************************************************)
PriceEntries == (0..MaxPrice) \cup {NullPrice}

PriceLists == UNION {[1..n -> PriceEntries] : n \in 0..MaxLen}

EmptyTable == [id \in Ids |-> AbsentRow]

\* churned holds the ids of the rows that were inserted, soft-deleted or
\* restored since the sweep began
IdleSweep ==
    [state |-> "Idle", batchSize |-> 0, continueFromId |-> Null, calls |-> 0,
     scored |-> [id \in Ids |-> 0], churned |-> {}]

ScorerIdle ==
    /\ averagePrices = <<>>
    /\ scoreParams = DEFAULT_HOTNESS_PARAMS
    /\ scoreResult = NotCalled

HandlersIdle ==
    /\ batch = IdleBatch
    /\ batchResp = NoResponse
    /\ refreshResp = RefreshResponse(0, "undefined")

\* Scorer specification: one call of the scorer on arguments drawn from
\* bounded sets.
InitScore ==
    /\ averagePrices \in PriceLists
    /\ scoreParams \in ParamSets
    /\ scoreResult = NotCalled
    /\ store = EmptyTable
    /\ now = 0
    /\ sweep = IdleSweep
    /\ HandlersIdle
    /\ SideIdle

ScoreCall ==
    /\ scoreResult = NotCalled
    /\ scoreResult' = calculateHotnessScore(averagePrices, scoreParams)
    /\ UNCHANGED <<sideVars, averagePrices, scoreParams, store, now, batch, batchResp,
                   refreshResp, sweep>>

NextScore == ScoreCall

SpecScore == InitScore /\ [][NextScore]_vars

\* Batch specification: one request to update-hotness-scores by a free
\* caller (any batchSize, parameters and continueFromId, the query and each
\* update failing or not) on a table whose price lists are as
\* getAveragePrices stores them (newest period first) or, the JSONB column
\* being unconstrained, hold an entry that is not a number.
BatchSizes == {0, 1, 2, 1000, 1001}

BatchCall ==
    /\ batchResp = NoResponse
    /\ \E batchSize \in BatchSizes, params \in ParamSets,
          continueFromId \in {Null} \cup Ids, fetchOk \in BOOLEAN :
          HandleBatch(batchSize, params, continueFromId, fetchOk)
    /\ UNCHANGED <<sideVars, averagePrices, scoreParams, scoreResult, refreshResp, sweep>>

BatchUpdateStep ==
    /\ \E updateOk \in BOOLEAN : BatchUpdate(updateOk)
    /\ UNCHANGED <<sideVars, averagePrices, scoreParams, scoreResult, refreshResp, sweep>>

CodeOf(id) == IF id = 1 THEN "AAA" ELSE IF id = 2 THEN "BBB" ELSE "S" \o ToString(id)

PricesOf(avgs) ==
    [null |-> FALSE, periods |-> [i \in 1..Len(avgs) |-> PeriodOf(i - 1, 1, avgs[i])]]

\* the schema of createSymbol accepts a price history without periods
StoredPrices ==
    {NullPrices, PricesOf(<<>>), PricesOf(<<5>>), PricesOf(<<4, 2>>), PricesOf(<<0, 0>>),
     PricesOf(<<NullPrice, 5>>)}

\* a row as created, or a row with prices that has been soft-deleted
StoredShapes ==
    {[recent_prices |-> rp, deleted_at |-> FALSE] : rp \in StoredPrices}
        \cup {[recent_prices |-> PricesOf(<<4, 2>>), deleted_at |-> TRUE]}

StoredTables ==
    {[id \in Ids |-> [NewRow(CodeOf(id), shape[id].recent_prices, 0)
                         EXCEPT !.deleted_at = shape[id].deleted_at]] :
        shape \in [Ids -> StoredShapes]}

InitBatch ==
    /\ ScorerIdle
    /\ store \in StoredTables
    /\ now = 0
    /\ sweep = IdleSweep
    /\ HandlersIdle
    /\ SideIdle

NextBatch == BatchCall \/ BatchUpdateStep

SpecBatch == InitBatch /\ [][NextBatch]_vars

\* Sweep specification: a caller sweeps an unchanging table on a healthy
\* store.  It picks a batchSize, starts without continueFromId and passes
\* each returned lastProcessedId as the next continueFromId while hasMore
\* is true.
InitSweep ==
    /\ ScorerIdle
    /\ store \in StoredTables
    /\ now = 0
    /\ \E k \in Ids : sweep = [IdleSweep EXCEPT !.batchSize = k]
    /\ HandlersIdle
    /\ SideIdle

SweepCall ==
    /\ sweep.state \in {"Idle", "InProgress"}
    /\ \E params \in ParamSets :
          HandleBatch(sweep.batchSize, params, sweep.continueFromId, TRUE)
    /\ sweep' = [sweep EXCEPT !.state = "Waiting"]
    /\ UNCHANGED <<sideVars, averagePrices, scoreParams, scoreResult, refreshResp>>

SweepUpdateStep ==
    /\ BatchUpdate(TRUE)
    /\ UNCHANGED <<sideVars, averagePrices, scoreParams, scoreResult, refreshResp, sweep>>

\* the caller reads the response
SweepReceive ==
    /\ sweep.state = "Waiting"
    /\ batch.pc = "idle"
    /\ sweep' = [sweep EXCEPT
                    !.calls = @ + 1,
                    !.scored = [id \in Ids |-> IF id \in batch.written THEN @[id] + 1
                                               ELSE @[id]],
                    !.continueFromId = batchResp.lastProcessedId,
                    !.state = IF batchResp.hasMore = "true" /\ batchResp.lastProcessedId # Null
                              THEN "InProgress" ELSE "Complete"]
    /\ UNCHANGED <<sideVars, averagePrices, scoreParams, scoreResult, store, now, batch,
                   batchResp, refreshResp>>

NextSweep == SweepCall \/ SweepUpdateStep \/ SweepReceive

SpecSweep == InitSweep /\ [][NextSweep]_vars

\* Run specification: the sweep of the sweep specification, which the
\* caller may start again once it is complete (startProcessing resets the
\* statistics and calls processBatch without continueFromId).
SweepRestart ==
    /\ sweep.state = "Complete"
    /\ sweep' = [IdleSweep EXCEPT !.batchSize = sweep.batchSize]
    /\ UNCHANGED <<sideVars, averagePrices, scoreParams, scoreResult, store, now, batch,
                   batchResp, refreshResp>>

NextRun == SweepCall \/ SweepUpdateStep \/ SweepReceive \/ SweepRestart

SpecRun == InitSweep /\ [][NextRun]_vars

\* System specification: the table starts empty; the symbol manager
\* refreshes prices (one day per period), which creates and fills rows, the
\* hotness manager starts batch runs, time passes.
UIBatchSize == 100

RefreshCall ==
    /\ \E symbol \in Codes, id \in Ids, amountOfPeriods \in 1..MaxPeriods :
          \E closes \in [1..amountOfPeriods -> {Null, 2, 4}] :
             Refresh(symbol, 1, amountOfPeriods, closes, id)
    /\ UNCHANGED <<sideVars, averagePrices, scoreParams, scoreResult, batch, batchResp, sweep>>

TickStep ==
    /\ Tick
    /\ UNCHANGED <<sideVars, averagePrices, scoreParams, scoreResult, store, batch, batchResp,
                   refreshResp, sweep>>

\* StockHotnessManager.processBatch: batchSize 100, the parameters of the
\* settings panel, no continueFromId on the first request of a run
ManagerCall ==
    /\ \E params \in ParamSets, fetchOk \in BOOLEAN :
          HandleBatch(UIBatchSize, params, Null, fetchOk)
    /\ UNCHANGED <<sideVars, averagePrices, scoreParams, scoreResult, refreshResp, sweep>>

Init ==
    /\ ScorerIdle
    /\ store = EmptyTable
    /\ now = 0
    /\ sweep = IdleSweep
    /\ HandlersIdle
    /\ SideIdle

Next == RefreshCall \/ TickStep \/ ManagerCall \/ BatchUpdateStep

Spec == Init /\ [][Next]_vars

\* Refresh specification: the system specification without the hotness
\* manager: price refreshes and the passing of time.
NextRefresh == RefreshCall \/ TickStep

SpecRefresh == Init /\ [][NextRefresh]_vars

\* Price specification: one call of getAveragePrices on provider data drawn
\* from bounded sets: a close (in 1/100) or no close for each of the last
\* MaxDays days.
CloseLists == [1..MaxDays -> {Null, 2, 4}]

InitPrices ==
    /\ ScorerIdle
    /\ store = EmptyTable
    /\ now = 0
    /\ sweep = IdleSweep
    /\ HandlersIdle
    /\ client = ClientIdle
    /\ drawer = DrawerUnmounted
    /\ admin = NoAdminCall
    /\ manager = ManagerMounted
    /\ \E closes \in CloseLists, numberOfDaysInPeriod \in 1..MaxDaysInPeriod,
          amountOfPeriods \in 1..MaxPeriods :
          priceCall = [NoPricesCall EXCEPT !.closes = closes,
                                           !.numberOfDaysInPeriod = numberOfDaysInPeriod,
                                           !.amountOfPeriods = amountOfPeriods]

PricesCall ==
    /\ ~priceCall.called
    /\ priceCall' = [priceCall EXCEPT
                        !.called = TRUE,
                        !.result = getAveragePrices(priceCall.closes,
                                                    priceCall.numberOfDaysInPeriod,
                                                    priceCall.amountOfPeriods)]
    /\ UNCHANGED <<client, drawer, admin, manager, averagePrices, scoreParams, scoreResult,
                   store, now, batch, batchResp, refreshResp, sweep>>

NextPrices == PricesCall

SpecPrices == InitPrices /\ [][NextPrices]_vars


\* Parameter specification: the scorer is called, the user edits the
\* parameters of StockHotnessManager, and the scorer is called again with the
\* same arguments.  exported holds the two parameter objects price-service
\* exports; the params state of the component starts as a reference to
\* DEFAULT_HOTNESS_PARAMS (useState), and paramsOmitted says that the calls
\* under study leave params out, so that the default argument is read.
MaxParam == 50

PanelKeys == {"dropSensitivity", "dropMaxScore"}

PanelValues == {0, MaxParam}

\* the object the params state refers to
ParamsOf(c) == IF c.paramsRef = "own" THEN c.paramsOwn ELSE c.exported[c.paramsRef]

\* setParams(prev => ({ ...prev, [key]: value })): a new object
updateParam_InPlace(c, key, value) ==
    IF c.paramsRef = "own"
    THEN [c EXCEPT !.paramsOwn = [@ EXCEPT ![key] = value]]
    ELSE [c EXCEPT !.exported = [@ EXCEPT ![c.paramsRef] = [@ EXCEPT ![key] = value]]]

updateParam(c, key, value) ==
    [c EXCEPT !.paramsRef = "own", !.paramsOwn = [ParamsOf(c) EXCEPT ![key] = value]]

resetToDefaults(c) == [c EXCEPT !.paramsRef = "DEFAULT_HOTNESS_PARAMS"]

applyRecommended(c) == [c EXCEPT !.paramsRef = "RECOMMENDED_HOTNESS_PARAMS"]

\* the params argument of the calls under study
ParamsArgument(c) ==
    IF c.paramsOmitted THEN c.exported["DEFAULT_HOTNESS_PARAMS"] ELSE scoreParams

InitParams ==
    /\ averagePrices \in [1..2 -> 0..MaxPrice]
    /\ scoreParams \in ParamSets
    /\ scoreResult = NotCalled
    /\ store = EmptyTable
    /\ now = 0
    /\ sweep = IdleSweep
    /\ HandlersIdle
    /\ priceCall = NoPricesCall
    /\ drawer = DrawerUnmounted
    /\ admin = NoAdminCall
    /\ manager = ManagerMounted
    /\ \E paramsOmitted \in BOOLEAN : client = [ClientIdle EXCEPT !.paramsOmitted = paramsOmitted]

ParamsFrame ==
    UNCHANGED <<priceCall, drawer, admin, manager, averagePrices, scoreParams, store, now,
                batch, batchResp, refreshResp, sweep>>

FirstScoreCall ==
    /\ scoreResult = NotCalled
    /\ scoreResult' = calculateHotnessScore(averagePrices, ParamsArgument(client))
    /\ UNCHANGED client
    /\ ParamsFrame

PanelUpdateParam ==
    /\ \E key \in PanelKeys, value \in PanelValues :
          client' = [updateParam(client, key, value) EXCEPT
                        !.edited = @ \/ scoreResult # NotCalled]
    /\ UNCHANGED scoreResult
    /\ ParamsFrame

PanelReset ==
    /\ client' = [resetToDefaults(client) EXCEPT !.edited = @ \/ scoreResult # NotCalled]
    /\ UNCHANGED scoreResult
    /\ ParamsFrame

PanelApplyRecommended ==
    /\ client' = [applyRecommended(client) EXCEPT !.edited = @ \/ scoreResult # NotCalled]
    /\ UNCHANGED scoreResult
    /\ ParamsFrame

SecondScoreCall ==
    /\ scoreResult # NotCalled
    /\ client.again = NotCalled
    /\ client' = [client EXCEPT
                     !.again = calculateHotnessScore(averagePrices, ParamsArgument(client))]
    /\ UNCHANGED scoreResult
    /\ ParamsFrame

NextParams ==
    \/ FirstScoreCall
    \/ PanelUpdateParam
    \/ PanelReset
    \/ PanelApplyRecommended
    \/ SecondScoreCall

SpecParams == InitParams /\ [][NextParams]_vars

\* Drawer specification: a parent mounts a Drawer, renders it open or
\* closed with the same or a new onClose, and unmounts it; the user presses
\* keys and clicks.  The effects of a render run with its commit.
MaxCloseCalls == 3

\* the Escape effect, deps [isOpen, onClose]: the listener after the effect
ListenerAfterEffect_AlwaysRegistered(isOpen, onClose) == onClose

ListenerAfterEffect(isOpen, onClose) == IF isOpen THEN onClose ELSE 0

DrawerFrame ==
    UNCHANGED <<priceCall, client, admin, manager, averagePrices, scoreParams, scoreResult,
                store, now, batch, batchResp, refreshResp, sweep>>

\* a render by the parent (the first one mounts the component): the cleanup
\* of the previous effect, then the effect
DrawerRender ==
    /\ \E isOpen \in BOOLEAN, shouldOpenWithBackdrop \in BOOLEAN, onClose \in 1..2 :
          drawer' = [drawer EXCEPT
                        !.mounted = TRUE,
                        !.isOpen = isOpen,
                        !.shouldOpenWithBackdrop = shouldOpenWithBackdrop,
                        !.onClose = onClose,
                        !.listener = ListenerAfterEffect(isOpen, onClose),
                        !.last = NoEvent]
    /\ DrawerFrame

\* the cleanup of the effect on unmount
DrawerUnmount ==
    /\ drawer.mounted
    /\ drawer' = [drawer EXCEPT !.mounted = FALSE, !.isOpen = FALSE, !.listener = 0,
                                !.last = NoEvent]
    /\ DrawerFrame

\* a keydown on the document: handleEscape, when it is registered
DrawerKeyDown ==
    /\ drawer.calls < MaxCloseCalls
    /\ \E key \in {"Escape", "Enter"} :
          LET invoked == IF drawer.listener # 0 /\ key = "Escape" THEN drawer.listener ELSE 0
          IN  drawer' = [drawer EXCEPT
                            !.calls = IF invoked # 0 THEN @ + 1 ELSE @,
                            !.last = [event |-> key, wasOpen |-> drawer.mounted /\ drawer.isOpen,
                                      invoked |-> invoked]]
    /\ DrawerFrame

\* a click on the close button, which exists while the drawer is rendered open
DrawerCloseClick ==
    /\ drawer.mounted /\ drawer.isOpen
    /\ drawer.calls < MaxCloseCalls
    /\ drawer' = [drawer EXCEPT
                     !.calls = @ + 1,
                     !.last = [event |-> "closeClick", wasOpen |-> TRUE,
                               invoked |-> drawer.onClose]]
    /\ DrawerFrame

\* a click on the backdrop itself or on something that bubbles to it
DrawerBackdropClick ==
    /\ drawer.mounted /\ drawer.isOpen /\ drawer.shouldOpenWithBackdrop
    /\ drawer.calls < MaxCloseCalls
    /\ \E onBackdropItself \in BOOLEAN :
          drawer' = [drawer EXCEPT
                        !.calls = IF onBackdropItself THEN @ + 1 ELSE @,
                        !.last = [event |-> "backdropClick", wasOpen |-> TRUE,
                                  invoked |-> IF onBackdropItself THEN drawer.onClose ELSE 0]]
    /\ DrawerFrame

InitDrawer ==
    /\ ScorerIdle
    /\ store = EmptyTable
    /\ now = 0
    /\ sweep = IdleSweep
    /\ HandlersIdle
    /\ SideIdle

NextDrawer ==
    \/ DrawerRender
    \/ DrawerUnmount
    \/ DrawerKeyDown
    \/ DrawerCloseClick
    \/ DrawerBackdropClick

SpecDrawer == InitDrawer /\ [][NextDrawer]_vars

\* SymbolRepository.getSymbolById: the row when it exists and is not
\* soft-deleted, null (AbsentRow) otherwise
getSymbolById(table, id) ==
    IF table[id].present /\ ~table[id].deleted_at THEN table[id] ELSE AbsentRow

\* SymbolService.isSymbolDeleted: getSymbolById returned null
isSymbolDeleted(table, id) == ~getSymbolById(table, id).present

AdminResult(table, outcome) == [table |-> table, outcome |-> outcome]

\* SymbolRepository.hardDeleteSymbol: delete ... where id = id
hardDeleteSymbolRepo(table, id) == AdminResult([table EXCEPT ![id] = AbsentRow], "ok")

\* SymbolService.hardDeleteSymbol
hardDeleteSymbol(table, id) ==
    LET symbol == getSymbolById(table, id)
    IN  IF ~symbol.present /\ ~isSymbolDeleted(table, id)
        THEN AdminResult(table, "Symbol not found")
        ELSE hardDeleteSymbolRepo(table, id)

\* SymbolRepository.softDeleteSymbol
softDeleteSymbolRepo(table, id) ==
    LET existingSymbol == getSymbolById(table, id)
    IN  IF ~existingSymbol.present THEN AdminResult(table, "Symbol not found")
        ELSE IF existingSymbol.deleted_at THEN AdminResult(table, "Symbol is already deleted")
        ELSE AdminResult([table EXCEPT ![id] = [@ EXCEPT !.deleted_at = TRUE]], "ok")

\* SymbolService.softDeleteSymbol
softDeleteSymbol(table, id) ==
    IF ~getSymbolById(table, id).present THEN AdminResult(table, "Symbol not found")
    ELSE softDeleteSymbolRepo(table, id)

\* SymbolService.restoreSymbol and SymbolRepository.restoreSymbol
restoreSymbol(table, id) ==
    IF ~(table[id].present /\ table[id].deleted_at)
    THEN AdminResult(table, "Symbol not found or not deleted")
    ELSE AdminResult([table EXCEPT ![id] = [@ EXCEPT !.deleted_at = FALSE]], "ok")

\* Administration specification: the delete and restore operations of
\* SymbolService are called, with any id, on a table whose rows are absent,
\* active or soft-deleted.
AdminTables ==
    {[id \in Ids |->
         IF shape[id] = "absent" THEN AbsentRow
         ELSE [NewRow(CodeOf(id), PricesOf(<<4, 2>>), 0) EXCEPT
                  !.deleted_at = (shape[id] = "deleted")]] :
        shape \in [Ids -> {"absent", "active", "deleted"}]}

AdminFrame ==
    UNCHANGED <<priceCall, client, drawer, manager, averagePrices, scoreParams, scoreResult,
                now, batch, batchResp, refreshResp, sweep>>

AdminCall(op, id, result) ==
    /\ store' = result.table
    /\ admin' = [op |-> op, id |-> id, outcome |-> result.outcome, before |-> store]
    /\ AdminFrame

HardDeleteCall == \E id \in Ids : AdminCall("hardDeleteSymbol", id, hardDeleteSymbol(store, id))

SoftDeleteCall == \E id \in Ids : AdminCall("softDeleteSymbol", id, softDeleteSymbol(store, id))

RestoreCall == \E id \in Ids : AdminCall("restoreSymbol", id, restoreSymbol(store, id))

InitAdmin ==
    /\ ScorerIdle
    /\ store \in AdminTables
    /\ now = 0
    /\ sweep = IdleSweep
    /\ HandlersIdle
    /\ SideIdle

NextAdmin == HardDeleteCall \/ SoftDeleteCall \/ RestoreCall

SpecAdmin == InitAdmin /\ [][NextAdmin]_vars

\* SymbolRepository.createSymbol: the row with a new id
createSymbol(table, id, code, recent_prices, clock) ==
    AdminResult([table EXCEPT ![id] = NewRow(code, recent_prices, clock)], "ok")

\* Churn specification: the sweep of the sweep specification over a table
\* whose rows are absent, active or soft-deleted, while other requests
\* insert, soft-delete and restore rows between and during the calls of the
\* sweep, at most MaxChurn different rows.
MaxChurn == 2

ChurnFrame ==
    UNCHANGED <<sideVars, averagePrices, scoreParams, scoreResult, now, batch, batchResp,
                refreshResp>>

\* after the first request of the sweep and before its last response is read
DuringSweep == sweep.state \in {"Waiting", "InProgress"}

Churn(id, result) ==
    /\ DuringSweep
    /\ id \in sweep.churned \/ Cardinality(sweep.churned) < MaxChurn
    /\ result.outcome = "ok"
    /\ store' = result.table
    /\ sweep' = [sweep EXCEPT !.churned = @ \cup {id}]
    /\ ChurnFrame

ChurnInsert ==
    \E id \in Ids :
        /\ ~store[id].present
        /\ Churn(id, createSymbol(store, id, CodeOf(id), PricesOf(<<4, 2>>), now))

ChurnSoftDelete == \E id \in Ids : Churn(id, softDeleteSymbol(store, id))

ChurnRestore == \E id \in Ids : Churn(id, restoreSymbol(store, id))

InitChurn ==
    /\ ScorerIdle
    /\ store \in AdminTables
    /\ now = 0
    /\ \E k \in Ids : sweep = [IdleSweep EXCEPT !.batchSize = k]
    /\ HandlersIdle
    /\ SideIdle

NextChurn ==
    \/ SweepCall
    \/ SweepUpdateStep
    \/ SweepReceive
    \/ ChurnInsert
    \/ ChurnSoftDelete
    \/ ChurnRestore

SpecChurn == InitChurn /\ [][NextChurn]_vars

\* Manager specification: the user clicks the button of StockHotnessManager,
\* whose handler is stopProcessing while isProcessing is true and
\* startProcessing otherwise; the server answers the requests in flight, the
\* 500 ms timers fire.  A response that asks to continue carries a
\* lastProcessedId after the continueFromId of its request.
MaxChains == 2

RunningChains(m) ==
    {i \in 1..Len(m.chains) : m.chains[i].state \in {"inFlight", "scheduled"}}

\* startProcessing: setIsProcessing(true), then processBatch() up to its fetch
startProcessing(m) ==
    [m EXCEPT !.isProcessing = TRUE,
              !.chains = Append(@, [state |-> "inFlight", continueFromId |-> Null,
                                    requests |-> 1])]

\* stopProcessing: setIsProcessing(false) and a status text
stopProcessing(m) ==
    [m EXCEPT !.isProcessing = FALSE, !.stopped = @ \cup RunningChains(m)]

\* what a request with continueFromId can be answered with
ManagerResponses(continueFromId) ==
    {[ok |-> FALSE, hasMore |-> "undefined", lastProcessedId |-> Null],
     [ok |-> TRUE, hasMore |-> "undefined", lastProcessedId |-> Null],
     [ok |-> TRUE, hasMore |-> "false", lastProcessedId |-> Null]}
        \cup {[ok |-> TRUE, hasMore |-> "true", lastProcessedId |-> id] :
                 id \in {x \in Ids : x > continueFromId}}

\* processBatch after its fetch: it arms the timer when data.hasMore &&
\* data.lastProcessedId, and otherwise, or on an error, ends with
\* setIsProcessing(false)
processBatchAfterFetch(m, i, data) ==
    IF data.ok /\ data.hasMore = "true" /\ data.lastProcessedId # Null
    THEN [m EXCEPT !.chains[i] = [@ EXCEPT !.state = "scheduled",
                                           !.continueFromId = data.lastProcessedId]]
    ELSE [m EXCEPT !.isProcessing = FALSE, !.chains[i] = [@ EXCEPT !.state = "ended"]]

\* the timer callback: processBatch(data.lastProcessedId) up to its fetch
processBatchFromTimer(m, i) ==
    [m EXCEPT !.chains[i] = [@ EXCEPT !.state = "inFlight", !.requests = @ + 1],
              !.requestsAfterStop = IF i \in m.stopped THEN @ \cup {i} ELSE @]

ManagerFrame ==
    UNCHANGED <<priceCall, client, drawer, admin, averagePrices, scoreParams, scoreResult,
                store, now, batch, batchResp, refreshResp, sweep>>

ManagerClick ==
    /\ IF manager.isProcessing
       THEN manager' = stopProcessing(manager)
       ELSE /\ Len(manager.chains) < MaxChains
            /\ manager' = startProcessing(manager)
    /\ ManagerFrame

ManagerResponse ==
    /\ \E i \in 1..Len(manager.chains) :
          /\ manager.chains[i].state = "inFlight"
          /\ \E data \in ManagerResponses(manager.chains[i].continueFromId) :
                manager' = processBatchAfterFetch(manager, i, data)
    /\ ManagerFrame

ManagerTimer ==
    /\ \E i \in 1..Len(manager.chains) :
          /\ manager.chains[i].state = "scheduled"
          /\ manager' = processBatchFromTimer(manager, i)
    /\ ManagerFrame

InitManager ==
    /\ ScorerIdle
    /\ store = EmptyTable
    /\ now = 0
    /\ sweep = IdleSweep
    /\ HandlersIdle
    /\ SideIdle

NextManager == ManagerClick \/ ManagerResponse \/ ManagerTimer

SpecManager == InitManager /\ [][NextManager]_vars

\* Formula specification: one call of the scorer on lists of two or three
\* prices that put the trend on and beside +-trendBoundary and the volatility
\* on and beside volatilityThreshold.
FormulaPrices == {49, 51, 97, 100, 103, 104, 110}

FormulaLists == UNION {[1..n -> FormulaPrices] : n \in 2..MaxLen}

InitFormula ==
    /\ averagePrices \in FormulaLists
    /\ scoreParams \in ParamSets
    /\ scoreResult = NotCalled
    /\ store = EmptyTable
    /\ now = 0
    /\ sweep = IdleSweep
    /\ HandlersIdle
    /\ SideIdle

NextFormula == ScoreCall

SpecFormula == InitFormula /\ [][NextFormula]_vars

\* Example specification: one call of the scorer on lists of five prices
\* around 100, among them the two worked examples.
ExamplePrices == {68, 99, 100, 101, 102}

ExampleLists == [1..5 -> ExamplePrices]

InitExample ==
    /\ averagePrices \in ExampleLists
    /\ scoreParams \in ParamSets
    /\ scoreResult = NotCalled
    /\ store = EmptyTable
    /\ now = 0
    /\ sweep = IdleSweep
    /\ HandlersIdle
    /\ SideIdle

NextExample == ScoreCall

SpecExample == InitExample /\ [][NextExample]_vars

\* Persistence specification: the hotness manager runs a batch over a table
\* whose one row holds two periods with average prices of two decimals (in
\* 1/100), as getAveragePrices stores them.
FinePrices == MinFinePrice..MaxFinePrice

InitPersist ==
    /\ ScorerIdle
    /\ \E newer \in FinePrices, older \in FinePrices :
          store = [EmptyTable EXCEPT ![1] = NewRow("AAA", PricesOf(<<newer, older>>), 0)]
    /\ now = 0
    /\ sweep = IdleSweep
    /\ HandlersIdle
    /\ SideIdle

NextPersist == ManagerCall \/ BatchUpdateStep

SpecPersist == InitPersist /\ [][NextPersist]_vars

(***************************************************************************)
(* Claims.                                                                 *)
(***************************************************************************)
\* what the claims about the scorer speak of
NumericEntry(p) == p >= 0

NumericPrices == SelectSeq(averagePrices, NumericEntry)

ScorerReturned == scoreResult.kind # "none"

OlderSum == SumSeq(Tail(NumericPrices))

\* C7: for every list with at least 2 valid non-negative prices and every
\* parameter set the scorer returns a number in [0, 100], and the value the
\* batch loop persists, Math.round of it, is an integer in 0..100.
C7_ScoreWithinBounds ==
    (ScorerReturned /\ Len(NumericPrices) >= 2) =>
        /\ scoreResult.kind = "number"
        /\ scoreResult.value >= 0 /\ scoreResult.value <= 10000
        /\ ToJSON(MathRound(scoreResult)) \in 0..100

\* C8: when the most recent price is at least the mean of the older prices
\* the scorer returns exactly 0.
C8_NoDropGivesZero ==
    (/\ ScorerReturned
     /\ Len(NumericPrices) >= 2
     /\ NumericPrices[1] * (Len(NumericPrices) - 1) >= OlderSum) =>
        scoreResult = Number(0)

\* C9: when the mean of the older prices is zero the scorer fails with an
\* error instead of returning a number, Infinity or NaN.
C9_ZeroHistoricalAverageThrows ==
    (ScorerReturned /\ Len(NumericPrices) >= 2 /\ OlderSum = 0) =>
        scoreResult.kind = "throw"

Range(f) == {f[i] : i \in DOMAIN f}

BatchFinished == batch.pc = "idle" /\ batchResp # NoResponse

\* a price list the loop can score: 2 periods or more, 2 numeric averages or more
Scorable(rp) ==
    /\ Len(rp.periods) >= 2
    /\ Cardinality({i \in 1..Len(rp.periods) : rp.periods[i].averagePrice >= 0}) >= 2

ScorableInPage == {s.id : s \in {x \in Range(batch.symbols) : Scorable(x.recent_prices)}}

SkippedInPage == {s.id : s \in {x \in Range(batch.symbols) : ~Scorable(x.recent_prices)}}

ScoreFieldsUnchanged(id) ==
    /\ store[id].hotness_score = batch.storeAtStart[id].hotness_score
    /\ store[id].last_updated_hotness_score = batch.storeAtStart[id].last_updated_hotness_score

\* the periods of a page symbol that begin the fewest / the most days ago
NewestPeriod(periods) ==
    CHOOSE p \in Range(periods) : \A q \in Range(periods) : p.startDaysAgo <= q.startDaysAgo

OldestPeriod(periods) ==
    CHOOSE p \in Range(periods) : \A q \in Range(periods) : p.startDaysAgo >= q.startDaysAgo

PeriodsInPage(id) == (CHOOSE s \in Range(batch.symbols) : s.id = id).recent_prices.periods

\* C1: a price refresh that writes a new price list leaves the row without
\* hotness_score and without last_updated_hotness_score.  Only a refresh
\* that writes recent_prices changes last_updated_recent_prices.
C1_RefreshClearsScore ==
    [][\A id \in Ids :
          store'[id].last_updated_recent_prices # store[id].last_updated_recent_prices =>
              /\ store'[id].hotness_score = Null
              /\ store'[id].last_updated_hotness_score = Null]_vars

\* C2: the list the batch loop passes to the scorer begins with the average
\* price of the most recent period and ends with that of the oldest.
C2_ScorerGetsNewestFirst ==
    \A i \in 1..Len(batch.updates) :
        LET update == batch.updates[i]
            periods == PeriodsInPage(update.id)
        IN  /\ update.averagePrices[1] = NewestPeriod(periods).averagePrice
            /\ update.averagePrices[Len(update.averagePrices)] = OldestPeriod(periods).averagePrice

\* C4: when the write step of a call fails, the call has changed no row's
\* hotness_score or last_updated_hotness_score.
C4_FailedWriteChangesNothing ==
    (BatchFinished /\ batchResp.body = "Failed to update some hotness scores") =>
        \A id \in Ids : ScoreFieldsUnchanged(id)

\* C5: in a call, an instrument with fewer than 2 periods or whose scoring
\* throws is skipped without aborting the call: it is not staged, not written
\* and its score fields stay as they were; an update is staged and sent for
\* every other instrument of the page, and it is written unless the store
\* refuses that update; processed of a successful call is the number of
\* instruments written.
C5_SkipsAreIsolated ==
    (BatchFinished /\ batch.symbols # <<>>) =>
        /\ {batch.updates[i].id : i \in 1..Len(batch.updates)} = ScorableInPage
        /\ batch.written \subseteq ScorableInPage
        /\ Cardinality(batch.written) + batch.updateErrors = Cardinality(ScorableInPage)
        /\ \A id \in Ids \ batch.written : ScoreFieldsUnchanged(id)
        /\ \A id \in batch.written :
              store[id].last_updated_hotness_score = now
        /\ batchResp.status = 200 =>
              /\ batch.written = ScorableInPage
              /\ batchResp.processed = Cardinality(batch.written)

\* a successful call whose page held a skipped instrument before a written one
C5_Witness ==
    /\ BatchFinished
    /\ batchResp.status = 200
    /\ \E i, j \in 1..Len(batch.symbols) :
          /\ i < j
          /\ batch.symbols[i].id \in SkippedInPage
          /\ Len(batch.symbols[i].recent_prices.periods) >= 2
          /\ batch.symbols[j].id \in batch.written
    /\ \E s \in Range(batch.symbols) : Len(s.recent_prices.periods) < 2

\* C6: a call with batchSize outside [1, 1000] gets the 400 response before
\* any request to the store, and the table is unchanged; a call with
\* batchSize inside [1, 1000] never gets the 400 response.
C6_BatchSizeValidation ==
    (batchResp # NoResponse \/ batch.pc = "updating") =>
        IF batch.batchSize < 1 \/ batch.batchSize > 1000
        THEN /\ batchResp.status = 400
             /\ batch.storeOps = 0
             /\ store = batch.storeAtStart
        ELSE batchResp.status # 400

\* a call with batchSize 1001 has been rejected
C6_Witness ==
    /\ batchResp.status = 400
    /\ batch.batchSize = 1001

\* what the claims about a sweep speak of
Collection ==
    {id \in Ids : store[id].present /\ ~store[id].deleted_at /\ ~store[id].recent_prices.null}

SweepM == Cardinality(Collection)

SweepK == sweep.batchSize

CeilCalls == (SweepM + SweepK - 1) \div SweepK

SweepPre ==
    /\ \A id \in Collection : Scorable(store[id].recent_prices)
    /\ 1 <= SweepK /\ SweepK < SweepM

EachScoredOnce == \A id \in Collection : sweep.scored[id] = 1

\* C3: with 1 <= k < M, after exactly ceil(M/k) calls every eligible
\* instrument has been scored exactly once and that call reports
\* hasMore = false, also when k divides M.
C3_SweepEndsAfterCeilCalls ==
    (SweepPre /\ sweep.calls = CeilCalls /\ sweep.state # "Waiting") =>
        /\ EachScoredOnce
        /\ batchResp.hasMore = "false"

\* C3 as amended: after ceil(M/k) calls every eligible instrument has been
\* scored exactly once; that call reports hasMore = false when k does not
\* divide M; when k divides M it reports hasMore = true with the last id, and
\* one more call, which finds no candidate and answers without hasMore, ends
\* the sweep with nothing scored again.
C3_SweepEndsAfterCeilCallsAmended ==
    SweepPre =>
        /\ sweep.calls <= CeilCalls + 1
        /\ (sweep.calls = CeilCalls /\ sweep.state # "Waiting") =>
              /\ EachScoredOnce
              /\ IF SweepM % SweepK = 0
                 THEN /\ batchResp.hasMore = "true"
                      /\ \A id \in Collection : id <= batchResp.lastProcessedId
                      /\ sweep.state = "InProgress"
                 ELSE /\ batchResp.hasMore = "false"
                      /\ sweep.state = "Complete"
        /\ sweep.calls = CeilCalls + 1 =>
              /\ SweepM % SweepK = 0
              /\ EachScoredOnce
              /\ batchResp.body = "No symbols found to process"
              /\ batchResp.hasMore = "undefined"
              /\ sweep.state = "Complete"
        /\ (sweep.calls < CeilCalls /\ sweep.state # "Waiting") =>
              sweep.state \in {"Idle", "InProgress"}

\* a sweep with k dividing M that has made its extra, empty call
C3_Witness ==
    /\ SweepPre
    /\ SweepM % SweepK = 0
    /\ sweep.calls = CeilCalls + 1
    /\ sweep.state = "Complete"
    /\ EachScoredOnce

\* C11: every successful call reports hasMore = true exactly when the page
\* holds batchSize instruments and hasMore = false otherwise, the empty page
\* included; lastProcessedId is the id of the last instrument of the page
\* when hasMore is true and null otherwise.
C11_HasMoreAndToken ==
    (BatchFinished /\ batchResp.status = 200) =>
        /\ batchResp.hasMore = (IF Len(batch.symbols) = batch.batchSize THEN "true" ELSE "false")
        /\ batchResp.lastProcessedId =
              (IF Len(batch.symbols) = batch.batchSize
               THEN batch.symbols[Len(batch.symbols)].id ELSE Null)

\* C12: the response of a call in which some score writes succeeded, also
\* when other writes of the call failed, carries a processed count, the
\* number of instruments written, and a lastProcessedId to continue from
\* unless it reports the sweep complete.
C12_ResponseAlwaysResumable ==
    (BatchFinished /\ batch.written # {}) =>
        /\ batchResp.processed = Cardinality(batch.written)
        /\ batchResp.lastProcessedId # Null \/ batchResp.hasMore = "false"

\* what the claim about the candidate page speaks of: the rows of the table
\* the request found that are not soft-deleted, have a price history that is
\* neither null nor empty, and come after continueFromId when one is given
EligibleForPage ==
    {id \in Ids : /\ batch.storeAtStart[id].present
                  /\ ~batch.storeAtStart[id].deleted_at
                  /\ ~batch.storeAtStart[id].recent_prices.null
                  /\ batch.storeAtStart[id].recent_prices.periods # <<>>
                  /\ (batch.continueFromId # Null => id > batch.continueFromId)}

PageIds == {batch.symbols[i].id : i \in 1..Len(batch.symbols)}

PageFetched ==
    /\ batch.storeOps >= 1
    /\ batchResp.body # "Failed to fetch symbols"

\* C13: the page holds only eligible instruments, in ascending order of id,
\* at most batchSize of them, and the batchSize smallest when more exist.
C13_CandidatePage ==
    PageFetched =>
        /\ PageIds \subseteq EligibleForPage
        /\ \A i, j \in 1..Len(batch.symbols) :
              i < j => batch.symbols[i].id < batch.symbols[j].id
        /\ Len(batch.symbols) <= batch.batchSize
        /\ \A id \in EligibleForPage \ PageIds :
              /\ Len(batch.symbols) = batch.batchSize
              /\ \A other \in PageIds : other < id

\* C14: a row that no batch run has written (it has no score timestamp) has
\* no hotness score: hotness_score is null, not a number.
C14_UnscoredHasNoScore ==
    \A id \in Ids :
        (store[id].present /\ store[id].last_updated_hotness_score = Null) =>
            store[id].hotness_score = Null

\* what the claims about getAveragePrices speak of
ReturnedPeriods == priceCall.result.data.periods

PricesReturned == priceCall.called /\ priceCall.result.ok

\* the indexes, among the amountOfPeriods + 1 newest periods, of those with data
PeriodsWithData ==
    {i \in 0..priceCall.amountOfPeriods :
        \E j \in 1..Len(priceCall.closes) :
            /\ priceCall.closes[j] # Null
            /\ (j - 1) \div priceCall.numberOfDaysInPeriod = i}

\* the average price of the oldest calculated period with data
OldestCalculatedAverage ==
    LET oldest == CHOOSE i \in PeriodsWithData : \A k \in PeriodsWithData : k <= i
        periodData == periodDataOf(priceCall.closes, oldest, priceCall.numberOfDaysInPeriod)
    IN  RoundDiv(SumCloses(priceCall.closes, periodData), Cardinality(periodData))

\* C15: the list getAveragePrices returns is newest first, startDaysAgo
\* strictly increasing along it, and has at most amountOfPeriods entries,
\* also when periods without data are skipped.
C15_NewestFirstAtMostN ==
    PricesReturned =>
        /\ Len(ReturnedPeriods) <= priceCall.amountOfPeriods
        /\ \A i, j \in 1..Len(ReturnedPeriods) :
              i < j => ReturnedPeriods[i].startDaysAgo < ReturnedPeriods[j].startDaysAgo

\* a full list returned around a period that had no data
C15_Witness ==
    /\ PricesReturned
    /\ Len(ReturnedPeriods) = priceCall.amountOfPeriods
    /\ Len(ReturnedPeriods) >= 2
    /\ \E i \in 1..(Len(ReturnedPeriods) - 1) :
          ReturnedPeriods[i + 1].startDaysAgo > ReturnedPeriods[i].endDaysAgo

C17_SweepEndsWithHasMoreFalse ==
    /\ sweep.state = "Complete" => batchResp.hasMore = "false"
    /\ (sweep.state = "Waiting" /\ sweep.calls = 0 /\ batch.symbols # <<>>) =>
          \A id \in Collection : batch.symbols[1].id <= id

\* the score the batch loop computes from a stored price list with params;
\* null when the loop would skip the list
LoopScoreOf(rp, params) ==
    IF rp.null \/ Len(rp.periods) < 2 THEN Null
    ELSE LET hotnessScore == calculateHotnessScore(averagePricesOf(rp.periods), params)
         IN  IF hotnessScore.kind = "throw" THEN Null
             ELSE ToJSON(MathRound(hotnessScore))

\* C18: once a batch run and a price refresh of an instrument the run wrote
\* have both finished, in whatever order their steps were taken, the stored
\* score of the instrument is absent or is the score of the price list that
\* is stored now.
C18_NoStaleScoreAfterRace ==
    batch.pc = "idle" =>
        \A id \in batch.written :
            \/ store[id].hotness_score = Null
            \/ store[id].hotness_score = LoopScoreOf(store[id].recent_prices, batch.params)

\* C19: a call of the scorer repeated with the same price list and the same
\* parameters returns the same result, whatever parameter edits happen in
\* between, and no operation changes DEFAULT_HOTNESS_PARAMS or
\* RECOMMENDED_HOTNESS_PARAMS.
C19_ScorerDeterministic ==
    /\ client.again # NotCalled => client.again = scoreResult
    /\ client.exported["DEFAULT_HOTNESS_PARAMS"] = DEFAULT_HOTNESS_PARAMS
    /\ client.exported["RECOMMENDED_HOTNESS_PARAMS"] = RECOMMENDED_HOTNESS_PARAMS

\* a positive score, obtained with params left out, has been obtained again
\* after an edit of the parameters
C19_Witness ==
    /\ client.again.kind = "number"
    /\ client.again.value > 0
    /\ client.paramsOmitted
    /\ client.edited
    /\ client.paramsRef = "own"
    /\ client.paramsOwn # DEFAULT_HOTNESS_PARAMS

\* C20: while the Drawer is open an Escape keydown on the document invokes
\* onClose and a click on the close button invokes onClose; while it is not
\* open no keydown listener is registered and a keydown never invokes
\* onClose.
C20_DrawerCloses ==
    /\ (drawer.last.event = "Escape" /\ drawer.last.wasOpen) =>
          drawer.last.invoked = drawer.onClose
    /\ drawer.last.event = "closeClick" => drawer.last.invoked = drawer.onClose
    /\ ~(drawer.mounted /\ drawer.isOpen) => drawer.listener = 0
    /\ (drawer.last.event \in {"Escape", "Enter"} /\ ~drawer.last.wasOpen) =>
          drawer.last.invoked = 0

\* onClose has been invoked, and a drawer rendered closed has then received
\* an Escape that invoked nothing
C20_Witness ==
    /\ drawer.mounted
    /\ ~drawer.isOpen
    /\ drawer.calls >= 1
    /\ drawer.last.event = "Escape"
    /\ drawer.last.invoked = 0

\* the unrounded score of a price list, rounded once to the nearest integer
RoundedOnceOf(prices, params) ==
    LET validPrices == SelectSeq(prices, IsValidPrice)
        N == Len(validPrices)
        histSum == SumSeq(Tail(validPrices))
        dropNum == (histSum - validPrices[1] * (N - 1)) * 100
    IN  IF dropNum <= 0 THEN 0
        ELSE RoundDiv(hotnessScoreOf(dropNum, histSum, validPrices, params), 1000)

\* C21: the integer the batch loop stages and writes for an instrument is
\* the unrounded score min(100, dropScore + volatilityScore) rounded once to
\* the nearest integer.
C21_PersistedIsRoundedOnce ==
    /\ \A i \in 1..Len(batch.updates) :
          batch.updates[i].hotness_score =
              RoundedOnceOf(batch.updates[i].averagePrices, batch.params)
    /\ \A id \in batch.written :
          store[id].hotness_score =
              RoundedOnceOf(averagePricesOf(store[id].recent_prices.periods), batch.params)

\* what the claim about the formula speaks of: 100 * (mostRecent - oldest),
\* the oldest price, and the multiplier the claim selects (in tenths)
TrendNum == (NumericPrices[1] - NumericPrices[Len(NumericPrices)]) * 100

OldestPrice == NumericPrices[Len(NumericPrices)]

DropNum == (OlderSum - NumericPrices[1] * (Len(NumericPrices) - 1)) * 100

PositiveDrop == Len(NumericPrices) >= 2 /\ OlderSum > 0 /\ DropNum > 0 /\ OldestPrice > 0

ClaimedMultiplier ==
    IF TrendNum * 10 < (0 - scoreParams.trendBoundary) * OldestPrice
    THEN scoreParams.downtrendPenalty
    ELSE IF TrendNum * 10 > scoreParams.trendBoundary * OldestPrice
         THEN scoreParams.uptrendMultiplier
         ELSE scoreParams.stableMultiplier

ClaimedBonus ==
    LET volatilityPercent == volatilityPercentageOf(NumericPrices)
    IN  IF volatilityPercent < scoreParams.volatilityThreshold * 100 THEN 0
        ELSE (Min(1000, volatilityPercent \div 10) * scoreParams.volatilityMaxBonus
                 * ClaimedMultiplier) \div 10

ClaimedDropPart ==
    Min(scoreParams.dropMaxScore * 1000,
        (DropNum * scoreParams.dropSensitivity * 1000) \div OlderSum)

\* C22: with a positive drop the scorer returns min(100, drop part + bonus)
\* rounded to 2 decimals, where the drop part is min(dropMaxScore,
\* dropPercent * dropSensitivity) and the bonus is 0 below
\* volatilityThreshold and min(1, volatilityPercent / 10) *
\* volatilityMaxBonus * m otherwise, m being downtrendPenalty below
\* -trendBoundary, uptrendMultiplier above +trendBoundary and
\* stableMultiplier otherwise, the two boundaries included.
C22_BonusAndMultiplier ==
    (ScorerReturned /\ PositiveDrop) =>
        scoreResult = Number(RoundDiv(Min(100000, ClaimedDropPart + ClaimedBonus), 10))

\* a scored list whose trend is exactly -trendBoundary and whose volatility
\* earns a bonus
C22_Witness ==
    /\ ScorerReturned
    /\ PositiveDrop
    /\ TrendNum * 10 = (0 - scoreParams.trendBoundary) * OldestPrice
    /\ ClaimedBonus > 0
    /\ ClaimedDropPart < scoreParams.dropMaxScore * 1000
    /\ scoreResult.kind = "number"

\* C23: with the default parameters [68, 101, 102, 101, 100] has its drop
\* score capped at 70, gets the downtrend multiplier 0.5 with normalized
\* volatility 1 and scores 85; [99, 101, 102, 101, 100] gets no volatility
\* bonus and scores a value that rounds to 30.
C23_WorkedExamples ==
    (ScorerReturned /\ scoreParams = DEFAULT_HOTNESS_PARAMS) =>
        /\ averagePrices = <<68, 101, 102, 101, 100>> =>
              /\ ClaimedDropPart = 70000
              /\ ClaimedMultiplier = 5
              /\ Min(1000, volatilityPercentageOf(averagePrices) \div 10) = 1000
              /\ scoreResult = Number(8500)
        /\ averagePrices = <<99, 101, 102, 101, 100>> =>
              /\ ClaimedBonus = 0
              /\ scoreResult.kind = "number"
              /\ scoreResult.value > 2950 /\ scoreResult.value < 3050
              /\ MathRound(scoreResult) = 30

\* the first example has scored 85
C23_Witness ==
    /\ averagePrices = <<68, 101, 102, 101, 100>>
    /\ scoreParams = DEFAULT_HOTNESS_PARAMS
    /\ scoreResult = Number(8500)

\* C24: in a call the page, the staged updates and the writes are in
\* ascending order of id; a lastProcessedId the call returns is greater than
\* the continueFromId it was given and not smaller than the id of any
\* instrument the call scored.
C24_AscendingOrderAndTokens ==
    /\ \A i, j \in 1..Len(batch.symbols) :
          i < j => batch.symbols[i].id < batch.symbols[j].id
    /\ \A i, j \in 1..Len(batch.updates) :
          i < j => batch.updates[i].id < batch.updates[j].id
    /\ batch.written \subseteq {batch.updates[i].id : i \in 1..(batch.next - 1)}
    /\ \A w \in batch.written : \A k \in batch.next..Len(batch.updates) :
          w < batch.updates[k].id
    /\ (BatchFinished /\ batchResp.lastProcessedId # Null) =>
          /\ batch.continueFromId # Null => batchResp.lastProcessedId > batch.continueFromId
          /\ \A i \in 1..Len(batch.updates) : batch.updates[i].id <= batchResp.lastProcessedId
          /\ \A id \in batch.written : id <= batchResp.lastProcessedId

\* a call given a continueFromId has written two instruments and returned
\* a later lastProcessedId
C24_Witness ==
    /\ BatchFinished
    /\ batch.continueFromId # Null
    /\ batchResp.lastProcessedId # Null
    /\ batchResp.lastProcessedId > batch.continueFromId
    /\ Cardinality(batch.written) >= 2

\* C25: hardDeleteSymbol fails with 'Symbol not found' and leaves the table
\* as it was when no row, active or soft-deleted, has the id; otherwise it
\* removes that row and nothing else.
C25_HardDeleteChecksExistence ==
    admin.op = "hardDeleteSymbol" =>
        IF ~admin.before[admin.id].present
        THEN /\ admin.outcome = "Symbol not found"
             /\ store = admin.before
        ELSE /\ admin.outcome = "ok"
             /\ store = [admin.before EXCEPT ![admin.id] = AbsentRow]

\* a row without its two score fields
WithoutScoreFields(row) ==
    [row EXCEPT !.hotness_score = Null, !.last_updated_hotness_score = Null]

C27_OneChainAtATime == Cardinality(RunningChains(manager)) <= 1

\* C28: a chain that was running when Stop was clicked sends no request
\* afterwards.
C28_StopAbandonsSweep == manager.requestsAfterStop = {}

\* the rows that have been eligible, and untouched, since the sweep began
StableEligible ==
    {id \in Ids \ sweep.churned : /\ store[id].present
                                   /\ ~store[id].deleted_at
                                   /\ Scorable(store[id].recent_prices)}

\* C29: while other rows are inserted, soft-deleted and restored between
\* its calls, a sweep scores no row that stays eligible more than once, and
\* when it is complete it has scored each of them exactly once.
C29_StableRowsScoredOnce ==
    /\ \A id \in StableEligible : sweep.scored[id] <= 1
    /\ sweep.state = "Complete" => \A id \in StableEligible : sweep.scored[id] = 1

\* a complete sweep of three calls or more during which two rows changed,
\* one of them with an id below a row scored afterwards
C29_Witness ==
    /\ sweep.state = "Complete"
    /\ sweep.calls >= 3
    /\ Cardinality(sweep.churned) = 2
    /\ StableEligible # {}
    /\ \E id \in StableEligible : \E c \in sweep.churned : c < id

\* the active rows whose prices were refreshed at most 24 hours ago
FreshIds ==
    {id \in Ids : /\ store[id].present
                  /\ ~store[id].deleted_at
                  /\ store[id].last_updated_recent_prices # Null
                  /\ now - store[id].last_updated_recent_prices <= StaleHours}

\* C30: a refresh request for an instrument whose prices are at most 24
\* hours old writes nothing and answers updated = false; no step changes
\* the prices or the price timestamp of such a row; and a step that does
\* write prices sets last_updated_recent_prices to the current time.
C30_RefreshOnlyWhenStale ==
    [][/\ (RefreshCall /\ \E id \in FreshIds : store[id].code \in Codes) =>
              /\ store' = store
              /\ refreshResp' = RefreshResponse(200, "false")
       /\ \A id \in Ids :
              (\/ store'[id].recent_prices # store[id].recent_prices
               \/ store'[id].last_updated_recent_prices # store[id].last_updated_recent_prices) =>
                  /\ id \notin FreshIds
                  /\ store'[id].last_updated_recent_prices = now]_vars

\* prices refreshed at the current time, later than 24 hours after the
\* start, and a request that was then answered updated = false
C30_Witness ==
    /\ now > StaleHours
    /\ refreshResp = RefreshResponse(200, "false")
    /\ \E id \in Ids : /\ store[id].present
                        /\ ~store[id].recent_prices.null
                        /\ store[id].last_updated_recent_prices = now

====
